---- MODULE Spec2Model ----
(***************************************************************************)
(* Model of export_invoice.py: one run of main() -- argument and           *)
(* credential validation, InvoiceExporter._login, the pagination loop of   *)
(* list_invoices_created_between, the metadata file write, and the loop    *)
(* of export_pdfs with get_invoice_pdf -- against a nondeterministic       *)
(* server and filesystem.                                                  *)
(*                                                                         *)
(* Python strings that the code takes apart (identifiers, dates, file      *)
(* names) are sequences of one-character strings.  Opaque strings          *)
(* (session ids, cursors, credentials) are TLA+ strings.  A value read     *)
(* with dict.get is an optional: [has |-> FALSE] stands for None.          *)
(***************************************************************************)
EXTENDS Integers, Sequences, FiniteSets, TLC

\* ---------------------------------------------------------------- bounds
\* Cap on the number of listing requests of one run (the loop itself has none).
MaxPages == 3
\* Cap on the number of records the server hands out over all pages of a run.
MaxRecords == 2
\* Cap on the length of the record list export_pdfs is started on directly.
MaxInvoices == 3

\* Cap on the length of the date strings the base name is derived from.
MaxDateLen == 3

\* ------------------------------------------------------- input domains
\* Day numbers the two command-line dates are drawn from.
DaySet == {1, 2}
\* Values of an environment variable: unset/empty (os.getenv default "") or set.
EnvValues == {"", "x"}
CredNames == {"BILL_USERNAME", "BILL_PASSWORD", "BILL_ORG_ID", "BILL_DEV_KEY"}
\* Session identifiers and cursors the server may issue.
SessionSet == {"s1", "s2"}
CursorSet == {"c1", "c2"}

\* Optional values (the result of dict.get).
None == [has |-> FALSE, val |-> <<>>]
Some(v) == [has |-> TRUE, val |-> v]
NoneStr == [has |-> FALSE, val |-> ""]
SomeStr(v) == [has |-> TRUE, val |-> v]

\* Python truthiness of an optional character string / opaque string.
Truthy(o) == o.has /\ o.val # <<>>
TruthyStr(o) == o.has /\ o.val # ""

\* Identifiers: absent, empty, "A", "B".
IdSet == {None, Some(<<>>), Some(<<"A">>), Some(<<"B">>)}
\* Dates: absent, empty, a bare date, a date that needs strip and both
\* separators ("1" again), and a date whose base name is "1-A".
DateSet ==
    {None, Some(<<>>),
     Some(<<"1">>),
     Some(<<" ", "1", " ", "2", "T", "3">>),
     Some(<<"1", "/", "A">>)}

\* An invoice record: only the two fields the code reads.
Records == [id : IdSet, invoiceDate : DateSet]
\* The records the listing server hands out in a whole run of main().
ServerRecords ==
    {[id |-> Some(<<"A">>), invoiceDate |-> Some(<<"1">>)],
     [id |-> Some(<<"B">>), invoiceDate |-> Some(<<" ", "1", " ", "2", "T", "3">>)],
     [id |-> None, invoiceDate |-> Some(<<"1">>)],
     [id |-> Some(<<"A">>), invoiceDate |-> None]}

\* All sequences over S of length at most n.
SeqUpTo(S, n) == UNION {[1..k -> S] : k \in 0..n}

\* Characters of the date strings the base-name derivation is tried on.
DateChars == {" ", "T", "/", ":", "1"}
\* Every date field over DateChars up to MaxDateLen characters, or absent.
AnyDate == {None} \cup {Some(d) : d \in SeqUpTo(DateChars, MaxDateLen)}

\* ----------------------------------------------------- string functions
Whitespace == {" "}

\* str.lstrip / str.rstrip / str.strip
RECURSIVE LStrip(_)
LStrip(s) ==
    IF s # <<>> /\ Head(s) \in Whitespace THEN LStrip(Tail(s)) ELSE s

RECURSIVE RStrip(_)
RStrip(s) ==
    IF s # <<>> /\ s[Len(s)] \in Whitespace
    THEN RStrip(SubSeq(s, 1, Len(s) - 1))
    ELSE s

Strip(s) == RStrip(LStrip(s))

\* s.split(sep, 1)[0]: the part of s before the first sep, all of s if none.
RECURSIVE SplitFirst(_, _)
SplitFirst(s, sep) ==
    IF s = <<>> \/ Head(s) = sep
    THEN <<>>
    ELSE <<Head(s)>> \o SplitFirst(Tail(s), sep)

\* s.replace(a, b) for one-character a and b.
Replace(s, a, b) == [k \in 1..Len(s) |-> IF s[k] = a THEN b ELSE s[k]]

\* Variant of BaseName: ':' is left in the name.
BaseNameNoColon(date) ==
    LET raw1 == Strip(date)
        raw2 == SplitFirst(SplitFirst(raw1, "T"), " ")
    IN  Replace(raw2, "/", "-")

\* Lines 111-113 of export_pdfs: the base name derived from a date string.
BaseName(date) ==
    LET raw1 == Strip(date)
        raw2 == SplitFirst(SplitFirst(raw1, "T"), " ")
    IN  Replace(Replace(raw2, "/", "-"), ":", "-")

PdfExt == <<".", "p", "d", "f">>

\* seen.get(base_name, 0), seen a function from base names to counts.
SeenGet(seen_, base) == IF base \in DOMAIN seen_ THEN seen_[base] ELSE 0

\* Line 116: the file name chosen from the count read from the registry.
FileName(base, count, invoice_id) ==
    IF count = 0 THEN base \o PdfExt ELSE base \o <<"-">> \o invoice_id \o PdfExt

\* Variant of SeenPut: the occurrence is registered but the count is not raised.
SeenPutNoIncrement(seen_, base, n) ==
    [b \in DOMAIN seen_ \cup {base} |-> IF b = base THEN 0 ELSE seen_[b]]

\* Line 115: seen[base_name] = count + 1
SeenPut(seen_, base, n) ==
    [b \in DOMAIN seen_ \cup {base} |-> IF b = base THEN n ELSE seen_[b]]

\* Line 69: the filter expression built from the two formatted dates.
Filters(start, end) == [gte |-> start, lt |-> end]

\* Variant of ListParams: the filter is sent along with the cursor.
ListParamsKeepFilter(np, filters) ==
    IF TruthyStr(np) THEN [page |-> np.val, filters |-> filters] ELSE [filters |-> filters]

\* Line 75: params = {"page": next_page} if next_page else {"filters": filters}
ListParams(np, filters) ==
    IF TruthyStr(np) THEN [page |-> np.val] ELSE [filters |-> filters]

\* ------------------------------------------------------------------ state
VARIABLES
    pc,          \* where main() is: start, login, list, meta, export, write, done, failed
    err,         \* the exception that ended the run ("" while none)
    start_date,  \* main: the formatted start date (0 before validation)
    end_date,    \* main: the formatted end date
    env,         \* the four environment variables read by main
    session_id,  \* InvoiceExporter.session_id
    results,     \* list_invoices_created_between: the accumulating list
    next_page,   \* list_invoices_created_between: the cursor
    listed,      \* TRUE once list_invoices_created_between has returned
    invoices,    \* main: the returned collection
    metaFile,    \* the content of bill_invoices_<start>_to_<end>.json, None if not written
    idx,         \* export_pdfs: position of the record the loop is at
    pdf,         \* export_pdfs: the fetched document not yet written
    seen,        \* export_pdfs: the filename registry
    loginReqs,   \* history: the login requests sent
    listReqs,    \* history: the listing requests sent
    served,      \* history: the pages the listing server answered with
    docReqs,     \* history: the document requests sent
    writes,      \* history: the PDF files written, in order
    notices,     \* history: identifiers named in a "Skipping invoice" message
    log          \* history: kinds of the side effects, in order

vars == <<pc, err, start_date, end_date, env, session_id, results, next_page,
          listed, invoices, metaFile, idx, pdf, seen, loginReqs, listReqs,
          served, docReqs, writes, notices, log>>

mainVars == <<start_date, end_date, env>>
listVars == <<results, next_page, listed, invoices, listReqs, served>>
exportVars == <<idx, pdf, seen, docReqs, writes, notices>>

\* The document the server holds for an identifier.
DocOf(invoice_id) == [doc |-> invoice_id]

\* The state before main() has done anything.
Init ==
    /\ pc = "start"
    /\ err = ""
    /\ start_date = 0
    /\ end_date = 0
    /\ env = [n \in CredNames |-> ""]
    /\ session_id = NoneStr
    /\ results = <<>>
    /\ next_page = NoneStr
    /\ listed = FALSE
    /\ invoices = <<>>
    /\ metaFile = None
    /\ idx = 1
    /\ pdf = None
    /\ seen = <<>>
    /\ loginReqs = <<>>
    /\ listReqs = <<>>
    /\ served = <<>>
    /\ docReqs = <<>>
    /\ writes = <<>>
    /\ notices = <<>>
    /\ log = <<>>

\* main() about to call export_pdfs (line 165) after a listing that returned
\* any list of records on a single page, the metadata file written.
InitExport ==
    /\ pc = "export"
    /\ err = ""
    /\ start_date = 1
    /\ end_date = 2
    /\ env = [n \in CredNames |-> "x"]
    /\ session_id = SomeStr("s1")
    /\ invoices \in SeqUpTo(Records, MaxInvoices)
    /\ results = invoices
    /\ next_page = NoneStr
    /\ listed = TRUE
    /\ metaFile = Some(invoices)
    /\ idx = 1
    /\ pdf = None
    /\ seen = <<>>
    /\ loginReqs = <<[username |-> "x", password |-> "x",
                      organizationId |-> "x", devKey |-> "x"]>>
    /\ listReqs = <<[params |-> [filters |-> [gte |-> 1, lt |-> 2]],
                     sessionId |-> "s1", devKey |-> "x"]>>
    /\ served = <<[results |-> Some(invoices), nextPage |-> NoneStr]>>
    /\ docReqs = <<>>
    /\ writes = <<>>
    /\ notices = <<>>
    /\ log = <<"login", "list", "meta">>

\* main() about to call export_pdfs (line 165) on a one-record collection
\* whose date field is any string of AnyDate.
InitDates ==
    /\ pc = "export"
    /\ err = ""
    /\ start_date = 1
    /\ end_date = 2
    /\ env = [n \in CredNames |-> "x"]
    /\ session_id = SomeStr("s1")
    /\ \E i \in IdSet, d \in AnyDate : invoices = <<[id |-> i, invoiceDate |-> d]>>
    /\ results = invoices
    /\ next_page = NoneStr
    /\ listed = TRUE
    /\ metaFile = Some(invoices)
    /\ idx = 1
    /\ pdf = None
    /\ seen = <<>>
    /\ loginReqs = <<[username |-> "x", password |-> "x",
                      organizationId |-> "x", devKey |-> "x"]>>
    /\ listReqs = <<[params |-> [filters |-> [gte |-> 1, lt |-> 2]],
                     sessionId |-> "s1", devKey |-> "x"]>>
    /\ served = <<[results |-> Some(invoices), nextPage |-> NoneStr]>>
    /\ docReqs = <<>>
    /\ writes = <<>>
    /\ notices = <<>>
    /\ log = <<"login", "list", "meta">>

\* -------------------------------------------------------------- main()
\* Variant of MainValidate: equal dates pass the ordering test (> for >=).
MainValidateAllowsEqual ==
    /\ pc = "start"
    /\ \E s \in DaySet, e \in DaySet, ev \in [CredNames -> EnvValues] :
         /\ env' = ev
         /\ IF s > e
            THEN /\ pc' = "failed"
                 /\ err' = "ValueError"
                 /\ UNCHANGED <<start_date, end_date>>
            ELSE /\ start_date' = s
                 /\ end_date' = e
                 /\ IF \E n \in CredNames : ev[n] = ""
                    THEN pc' = "failed" /\ err' = "MissingEnv"
                    ELSE pc' = "login" /\ err' = ""
    /\ UNCHANGED <<session_id, metaFile, log, loginReqs>>
    /\ UNCHANGED listVars
    /\ UNCHANGED exportVars

\* Lines 129-149: date ordering, then the four environment variables.
MainValidate ==
    /\ pc = "start"
    /\ \E s \in DaySet, e \in DaySet, ev \in [CredNames -> EnvValues] :
         /\ env' = ev
         /\ IF s >= e
            THEN /\ pc' = "failed"
                 /\ err' = "ValueError"
                 /\ UNCHANGED <<start_date, end_date>>
            ELSE /\ start_date' = s
                 /\ end_date' = e
                 /\ IF \E n \in CredNames : ev[n] = ""
                    THEN pc' = "failed" /\ err' = "MissingEnv"
                    ELSE pc' = "login" /\ err' = ""
    /\ UNCHANGED <<session_id, metaFile, log, loginReqs>>
    /\ UNCHANGED listVars
    /\ UNCHANGED exportVars

\* Variant of Login: only a missing sessionId is refused, an empty one is kept.
LoginAcceptsEmpty ==
    /\ pc = "login"
    /\ loginReqs' = Append(loginReqs, [username |-> env["BILL_USERNAME"],
                                       password |-> env["BILL_PASSWORD"],
                                       organizationId |-> env["BILL_ORG_ID"],
                                       devKey |-> env["BILL_DEV_KEY"]])
    /\ log' = Append(log, "login")
    /\ \/ /\ \E e \in {"LoginTransport", "LoginStatus"} : err' = e
          /\ pc' = "failed"
          /\ UNCHANGED session_id
       \/ \E sid \in {NoneStr, SomeStr("")} \cup {SomeStr(t) : t \in SessionSet} :
            IF ~sid.has
            THEN pc' = "failed" /\ err' = "LoginNoSession" /\ UNCHANGED session_id
            ELSE pc' = "list" /\ err' = "" /\ session_id' = sid
    /\ UNCHANGED <<metaFile>>
    /\ UNCHANGED mainVars
    /\ UNCHANGED listVars
    /\ UNCHANGED exportVars

\* Lines 43-60: __init__ calls _login once; the server answers with a
\* transport failure, a non-success status, or a body with or without sessionId.
Login ==
    /\ pc = "login"
    /\ loginReqs' = Append(loginReqs, [username |-> env["BILL_USERNAME"],
                                       password |-> env["BILL_PASSWORD"],
                                       organizationId |-> env["BILL_ORG_ID"],
                                       devKey |-> env["BILL_DEV_KEY"]])
    /\ log' = Append(log, "login")
    /\ \/ /\ \E e \in {"LoginTransport", "LoginStatus"} : err' = e
          /\ pc' = "failed"
          /\ UNCHANGED session_id
       \/ \E sid \in {NoneStr, SomeStr("")} \cup {SomeStr(t) : t \in SessionSet} :
            IF ~TruthyStr(sid)
            THEN pc' = "failed" /\ err' = "LoginNoSession" /\ UNCHANGED session_id
            ELSE pc' = "list" /\ err' = "" /\ session_id' = sid
    /\ UNCHANGED <<metaFile>>
    /\ UNCHANGED mainVars
    /\ UNCHANGED listVars
    /\ UNCHANGED exportVars

\* ----------------------------------------- list_invoices_created_between
\* The bodies a listing response may carry: "results" absent or a list of
\* at most `room` records, "nextPage" absent, empty or a cursor.
Pages(room) ==
    [results : {None} \cup {Some(rs) : rs \in SeqUpTo(ServerRecords, room)},
     nextPage : {NoneStr, SomeStr("")} \cup {SomeStr(c) : c \in CursorSet}]

\* Line 81: data.get("results", [])
PageResults(page) == IF page.results.has THEN page.results.val ELSE <<>>

\* Variant of Extend: a record whose id is already in the list is not appended.
RECURSIVE ExtendDedupSeq(_, _)
ExtendDedupSeq(rs, new) ==
    IF new = <<>>
    THEN rs
    ELSE IF \E k \in 1..Len(rs) : rs[k].id = Head(new).id
         THEN ExtendDedupSeq(rs, Tail(new))
         ELSE ExtendDedupSeq(Append(rs, Head(new)), Tail(new))

ExtendDedup(rs, page) == ExtendDedupSeq(rs, PageResults(page))

\* Line 81: results.extend(...)
Extend(rs, page) == rs \o PageResults(page)

\* Variant of LoopBreaks: the loop also ends when the server repeats the cursor.
LoopBreaksOnRepeat(np) == ~TruthyStr(np) \/ np = next_page

\* Variant of LoopBreaks: only an absent nextPage ends the loop, an empty one does not.
LoopBreaksOnlyOnNone(np) == ~np.has

\* Lines 83-84: the loop breaks when the response carried no cursor.
LoopBreaks(np) == ~TruthyStr(np)

\* Lines 64-68 and 75: the request of one loop iteration.
ListRequest ==
    [params |-> ListParams(next_page, Filters(start_date, end_date)),
     sessionId |-> session_id.val,
     devKey |-> env["BILL_DEV_KEY"]]

\* Variant of ListFail: the failure is swallowed and the pages read so far are returned.
ListFailReturnsPartial ==
    /\ pc = "list"
    /\ Len(listReqs) < MaxPages
    /\ listReqs' = Append(listReqs, [params |-> ListParams(next_page, Filters(start_date, end_date)),
                                     sessionId |-> session_id.val,
                                     devKey |-> env["BILL_DEV_KEY"]])
    /\ log' = Append(log, "list")
    /\ \E e \in {"ListTransport", "ListStatus"} : err' = e
    /\ pc' = "meta"
    /\ invoices' = results
    /\ listed' = TRUE
    /\ UNCHANGED <<results, next_page, served>>
    /\ UNCHANGED <<session_id, metaFile, loginReqs>>
    /\ UNCHANGED mainVars
    /\ UNCHANGED exportVars

\* Lines 74-86: one iteration of the loop, the request failing (lines 77-78).
ListFail ==
    /\ pc = "list"
    /\ Len(listReqs) < MaxPages
    /\ listReqs' = Append(listReqs, ListRequest)
    /\ log' = Append(log, "list")
    /\ \E e \in {"ListTransport", "ListStatus"} : err' = e
    /\ pc' = "failed"
    /\ results' = <<>>
    /\ UNCHANGED <<next_page, listed, invoices, served>>
    /\ UNCHANGED <<session_id, metaFile, loginReqs>>
    /\ UNCHANGED mainVars
    /\ UNCHANGED exportVars

\* Lines 74-86: one iteration of the loop, the request answered; the loop
\* breaks and the function returns when the response has no cursor.
ListPage ==
    /\ pc = "list"
    /\ Len(listReqs) < MaxPages
    /\ listReqs' = Append(listReqs, ListRequest)
    /\ log' = Append(log, "list")
    /\ \E page \in Pages(MaxRecords - Len(results)) :
         /\ served' = Append(served, page)
         /\ results' = Extend(results, page)
         /\ next_page' = page.nextPage
         /\ IF LoopBreaks(page.nextPage)
            THEN /\ invoices' = Extend(results, page)
                 /\ listed' = TRUE
                 /\ pc' = "meta"
            ELSE /\ UNCHANGED <<invoices, listed>>
                 /\ pc' = "list"
    /\ UNCHANGED <<err, session_id, metaFile, loginReqs>>
    /\ UNCHANGED mainVars
    /\ UNCHANGED exportVars

\* Variant of WriteMeta: only the records that will be exported are dumped.
WriteMetaExportableOnly ==
    /\ pc = "meta"
    /\ \/ /\ metaFile' = Some(SelectSeq(invoices,
                                LAMBDA r : Truthy(r.id) /\ Truthy(r.invoiceDate)))
          /\ log' = Append(log, "meta")
          /\ pc' = "export"
          /\ UNCHANGED err
       \/ /\ pc' = "failed"
          /\ err' = "MetaWrite"
          /\ UNCHANGED <<metaFile, log>>
    /\ UNCHANGED <<session_id, loginReqs>>
    /\ UNCHANGED mainVars
    /\ UNCHANGED listVars
    /\ UNCHANGED exportVars

\* Variant of WriteMeta: main goes on to export_pdfs without having written the file.
WriteMetaDeferred ==
    /\ pc = "meta"
    /\ pc' = "export"
    /\ UNCHANGED <<err, metaFile, log>>
    /\ UNCHANGED <<session_id, loginReqs>>
    /\ UNCHANGED mainVars
    /\ UNCHANGED listVars
    /\ UNCHANGED exportVars

\* Lines 159-163: create the directory and write the JSON file, or fail.
WriteMeta ==
    /\ pc = "meta"
    /\ \/ /\ metaFile' = Some(invoices)
          /\ log' = Append(log, "meta")
          /\ pc' = "export"
          /\ UNCHANGED err
       \/ /\ pc' = "failed"
          /\ err' = "MetaWrite"
          /\ UNCHANGED <<metaFile, log>>
    /\ UNCHANGED <<session_id, loginReqs>>
    /\ UNCHANGED mainVars
    /\ UNCHANGED listVars
    /\ UNCHANGED exportVars

\* ----------------------------------------------------------- export_pdfs
AtRecord == pc = "export" /\ idx <= Len(invoices)

\* Lines 100-102: no identifier, continue.
ExportSkipNoId ==
    /\ AtRecord
    /\ ~Truthy(invoices[idx].id)
    /\ idx' = idx + 1
    /\ UNCHANGED <<pc, err, session_id, metaFile, loginReqs, log>>
    /\ UNCHANGED <<pdf, seen, docReqs, writes, notices>>
    /\ UNCHANGED mainVars
    /\ UNCHANGED listVars

\* Variant of ExportSkipNoDate: break instead of continue.
ExportSkipNoDateBreaks ==
    /\ AtRecord
    /\ Truthy(invoices[idx].id)
    /\ ~Truthy(invoices[idx].invoiceDate)
    /\ notices' = Append(notices, invoices[idx].id.val)
    /\ idx' = Len(invoices) + 1
    /\ UNCHANGED <<pc, err, session_id, metaFile, loginReqs, log>>
    /\ UNCHANGED <<pdf, seen, docReqs, writes>>
    /\ UNCHANGED mainVars
    /\ UNCHANGED listVars

\* Variant of ExportSkipNoDate: the date is tested before the identifier.
ExportSkipNoDateFirst ==
    /\ AtRecord
    /\ ~Truthy(invoices[idx].invoiceDate)
    /\ notices' = Append(notices, invoices[idx].id.val)
    /\ idx' = idx + 1
    /\ UNCHANGED <<pc, err, session_id, metaFile, loginReqs, log>>
    /\ UNCHANGED <<pdf, seen, docReqs, writes>>
    /\ UNCHANGED mainVars
    /\ UNCHANGED listVars

\* Lines 104-107: an identifier but no date, print and continue.
ExportSkipNoDate ==
    /\ AtRecord
    /\ Truthy(invoices[idx].id)
    /\ ~Truthy(invoices[idx].invoiceDate)
    /\ notices' = Append(notices, invoices[idx].id.val)
    /\ idx' = idx + 1
    /\ UNCHANGED <<pc, err, session_id, metaFile, loginReqs, log>>
    /\ UNCHANGED <<pdf, seen, docReqs, writes>>
    /\ UNCHANGED mainVars
    /\ UNCHANGED listVars

\* Variant of DocRequest: the developer key is sent in the sessionId header.
DocRequestDevKey(invoice_id) ==
    [Id |-> invoice_id, sessionId |-> env["BILL_DEV_KEY"], pos |-> idx]

\* Lines 88-92: the request get_invoice_pdf sends.
DocRequest(invoice_id) ==
    [Id |-> invoice_id, sessionId |-> session_id.val, pos |-> idx]

\* Variant of ExportFetch: the document is fetched before the date is looked at.
ExportFetchBeforeDateTest ==
    /\ AtRecord
    /\ Truthy(invoices[idx].id)
    /\ docReqs' = Append(docReqs, DocRequest(invoices[idx].id.val))
    /\ log' = Append(log, "doc")
    /\ \/ /\ pdf' = Some(DocOf(invoices[idx].id.val))
          /\ pc' = "write"
          /\ UNCHANGED err
       \/ /\ \E e \in {"FetchTransport", "FetchStatus"} : err' = e
          /\ pc' = "failed"
          /\ UNCHANGED pdf
    /\ UNCHANGED <<session_id, metaFile, loginReqs>>
    /\ UNCHANGED <<idx, seen, writes, notices>>
    /\ UNCHANGED mainVars
    /\ UNCHANGED listVars

\* Variant of ExportFetch: the loop goes on to the next record's fetch with
\* the document held back instead of written.
ExportFetchAhead ==
    /\ AtRecord
    /\ Truthy(invoices[idx].id)
    /\ Truthy(invoices[idx].invoiceDate)
    /\ docReqs' = Append(docReqs, DocRequest(invoices[idx].id.val))
    /\ log' = Append(log, "doc")
    /\ \/ /\ pdf' = Some(DocOf(invoices[idx].id.val))
          /\ idx' = idx + 1
          /\ UNCHANGED <<pc, err>>
       \/ /\ \E e \in {"FetchTransport", "FetchStatus"} : err' = e
          /\ pc' = "failed"
          /\ UNCHANGED <<pdf, idx>>
    /\ UNCHANGED <<session_id, metaFile, loginReqs>>
    /\ UNCHANGED <<seen, writes, notices>>
    /\ UNCHANGED mainVars
    /\ UNCHANGED listVars

\* Variant of ExportFetch: a failed fetch is caught and the record skipped.
ExportFetchSkipsFailure ==
    /\ AtRecord
    /\ Truthy(invoices[idx].id)
    /\ Truthy(invoices[idx].invoiceDate)
    /\ docReqs' = Append(docReqs, DocRequest(invoices[idx].id.val))
    /\ log' = Append(log, "doc")
    /\ \/ /\ pdf' = Some(DocOf(invoices[idx].id.val))
          /\ pc' = "write"
          /\ UNCHANGED <<err, idx>>
       \/ /\ \E e \in {"FetchTransport", "FetchStatus"} : err' = e
          /\ idx' = idx + 1
          /\ UNCHANGED <<pc, pdf>>
    /\ UNCHANGED <<session_id, metaFile, loginReqs>>
    /\ UNCHANGED <<seen, writes, notices>>
    /\ UNCHANGED mainVars
    /\ UNCHANGED listVars

\* Line 109 with lines 88-94: fetch the document; a failure propagates.
ExportFetch ==
    /\ AtRecord
    /\ Truthy(invoices[idx].id)
    /\ Truthy(invoices[idx].invoiceDate)
    /\ docReqs' = Append(docReqs, DocRequest(invoices[idx].id.val))
    /\ log' = Append(log, "doc")
    /\ \/ /\ pdf' = Some(DocOf(invoices[idx].id.val))
          /\ pc' = "write"
          /\ UNCHANGED err
       \/ /\ \E e \in {"FetchTransport", "FetchStatus"} : err' = e
          /\ pc' = "failed"
          /\ UNCHANGED pdf
    /\ UNCHANGED <<session_id, metaFile, loginReqs>>
    /\ UNCHANGED <<idx, seen, writes, notices>>
    /\ UNCHANGED mainVars
    /\ UNCHANGED listVars

\* Lines 111-119: name the file from the registry and write it, or fail writing.
ExportWrite ==
    /\ pc = "write"
    /\ LET invoice_id == invoices[idx].id.val
           base_name == BaseName(invoices[idx].invoiceDate.val)
           count == SeenGet(seen, base_name)
           filename == FileName(base_name, count, invoice_id)
       IN  /\ seen' = SeenPut(seen, base_name, count + 1)
           /\ \/ /\ writes' = Append(writes, [name |-> filename,
                                              content |-> pdf.val,
                                              pos |-> idx])
                 /\ log' = Append(log, "pdf")
                 /\ pdf' = None
                 /\ idx' = idx + 1
                 /\ pc' = "export"
                 /\ UNCHANGED err
              \/ /\ pc' = "failed"
                 /\ err' = "PdfWrite"
                 /\ UNCHANGED <<writes, log, pdf, idx>>
    /\ UNCHANGED <<session_id, metaFile, loginReqs>>
    /\ UNCHANGED <<docReqs, notices>>
    /\ UNCHANGED mainVars
    /\ UNCHANGED listVars

\* The loop is exhausted: export_pdfs returns (and main prints, lines 167-168).
ExportReturn ==
    /\ pc = "export"
    /\ idx > Len(invoices)
    /\ pc' = "done"
    /\ UNCHANGED <<err, session_id, metaFile, loginReqs, log>>
    /\ UNCHANGED exportVars
    /\ UNCHANGED mainVars
    /\ UNCHANGED listVars

\* Lines 97-119 as a function: the file names export_pdfs assigns, in order,
\* to a list of records when no fetch and no write fails.
RECURSIVE NamesFrom(_, _)
NamesFrom(invs, seen_) ==
    IF invs = <<>>
    THEN <<>>
    ELSE LET invoice == Head(invs)
         IN  IF ~Truthy(invoice.id) \/ ~Truthy(invoice.invoiceDate)
             THEN NamesFrom(Tail(invs), seen_)
             ELSE LET base_name == BaseName(invoice.invoiceDate.val)
                      count == SeenGet(seen_, base_name)
                  IN  <<FileName(base_name, count, invoice.id.val)>>
                      \o NamesFrom(Tail(invs), SeenPut(seen_, base_name, count + 1))

ExportNames(invs) == NamesFrom(invs, <<>>)

\* --------------------------------------------------------- specifications
ExportStep ==
    \/ ExportSkipNoId
    \/ ExportSkipNoDate
    \/ ExportFetch
    \/ ExportWrite
    \/ ExportReturn

Next ==
    \/ MainValidate
    \/ Login
    \/ ListFail
    \/ ListPage
    \/ WriteMeta
    \/ ExportStep

\* A whole run of main().
Spec == Init /\ [][Next]_vars

\* export_pdfs called on any list of records.
SpecExport == InitExport /\ [][ExportStep]_vars

\* export_pdfs on a single record with any date string.
SpecDates == InitDates /\ [][ExportStep]_vars

\* ------------------------------------------------------------------ types
TypeOK ==
    /\ pc \in {"start", "login", "list", "meta", "export", "write", "done", "failed"}
    /\ listed \in BOOLEAN
    /\ idx \in 1..(Len(invoices) + 1)
    /\ Len(listReqs) <= MaxPages

\* ================================================================ claims
\* The records of a sequence of served pages, page after page.
RECURSIVE Flatten(_)
Flatten(pages) ==
    IF pages = <<>>
    THEN <<>>
    ELSE (IF Head(pages).results.has THEN Head(pages).results.val ELSE <<>>)
         \o Flatten(Tail(pages))

RECURSIVE SumLens(_)
SumLens(pages) ==
    IF pages = <<>>
    THEN 0
    ELSE (IF Head(pages).results.has THEN Len(Head(pages).results.val) ELSE 0)
         + SumLens(Tail(pages))

\* C1: when the server answers a finite chain of pages and never fails, the
\* returned collection is the concatenation of all pages' records in page
\* order and in each page's order; its length is the sum of the page sizes
\* and nothing is dropped or deduplicated.  (The list under construction is
\* the concatenation of the pages read so far.)
C1_PaginationCompleteness ==
    /\ pc = "list" => results = Flatten(served)
    /\ listed =>
         /\ invoices = Flatten(served)
         /\ Len(invoices) = SumLens(served)
         /\ served # <<>>
         /\ ~TruthyStr(served[Len(served)].nextPage)

\* C1 witness: a returned two-record collection from at least two pages in
\* which the same identifier was served on two different pages.
C1_Witness ==
    /\ listed
    /\ Len(served) >= 2
    /\ \E p \in 1..Len(served), q \in 1..Len(served) :
         /\ p < q
         /\ served[p].results.has /\ served[q].results.has
         /\ \E a \in 1..Len(served[p].results.val), b \in 1..Len(served[q].results.val) :
              /\ served[p].results.val[a].id = served[q].results.val[b].id
              /\ Truthy(served[p].results.val[a].id)
    /\ Len(invoices) = 2

\* C2: the first listing request carries the filter expression and no
\* cursor; every later one carries only the cursor of the immediately
\* preceding response and no filter; no request carries both.
C2_CursorExclusivity ==
    \A k \in 1..Len(listReqs) :
        /\ DOMAIN listReqs[k].params # {"page", "filters"}
        /\ IF k = 1
           THEN listReqs[k].params = [filters |-> [gte |-> start_date, lt |-> end_date]]
           ELSE /\ k - 1 <= Len(served)
                /\ listReqs[k].params = [page |-> served[k - 1].nextPage.val]
                /\ TruthyStr(served[k - 1].nextPage)

\* C2 witness: three requests, the second and third following two different cursors.
C2_Witness ==
    /\ Len(listReqs) = 3
    /\ listReqs[2].params = [page |-> "c1"]
    /\ listReqs[3].params = [page |-> "c2"]

\* C3: once a response carries no cursor (nextPage absent or empty) no
\* further listing request is issued, the function has returned, and that
\* last response's records are at the end of the result.
C3_StopsAtLastPage ==
    \A k \in 1..Len(served) :
        ~TruthyStr(served[k].nextPage) =>
            /\ k = Len(served)
            /\ Len(listReqs) = k
            /\ listed
            /\ pc # "list"
            /\ LET last == IF served[k].results.has THEN served[k].results.val ELSE <<>>
               IN  /\ Len(invoices) >= Len(last)
                   /\ SubSeq(invoices, Len(invoices) - Len(last) + 1, Len(invoices)) = last

\* C3 witness: a finished run whose second page had an empty cursor and a record.
C3_Witness ==
    /\ pc = "done"
    /\ Len(served) = 2
    /\ served[2].nextPage = SomeStr("")
    /\ served[2].results.has
    /\ Len(served[2].results.val) = 1

\* A listing request got no answer: more requests were sent than pages served.
ListingFailed == Len(listReqs) > Len(served)

\* C4: if a listing request fails at any page, the call returns no
\* collection, the failed request is the last listing request, and the run
\* writes no metadata file and no PDF and sends no document request; the
\* records of the earlier pages do not reach the caller.
C4_AllOrNothingListing ==
    ListingFailed =>
        /\ pc = "failed"
        /\ err \in {"ListTransport", "ListStatus"}
        /\ Len(listReqs) = Len(served) + 1
        /\ ~listed
        /\ invoices = <<>>
        /\ metaFile = None
        /\ writes = <<>>
        /\ docReqs = <<>>

\* C4 witness: the third request fails after two pages that carried records.
C4_Witness ==
    /\ ListingFailed
    /\ Len(served) = 2
    /\ Flatten(served) # <<>>
    /\ served[1].results.has /\ served[1].results.val # <<>>

\* A record export_pdfs fetches: it has an identifier and a date.
Exportable(r) == Truthy(r.id) /\ Truthy(r.invoiceDate)

\* The record at position p is the first exportable one with its base name.
FirstOfBase(p) ==
    ~\E q \in 1..(p - 1) :
        /\ Exportable(invoices[q])
        /\ BaseName(invoices[q].invoiceDate.val) = BaseName(invoices[p].invoiceDate.val)

WrittenNames == [k \in 1..Len(writes) |-> writes[k].name]

\* C5: among the records with both an identifier and a date, the first one
\* (in input order) deriving a base name is written as <base>.pdf and every
\* later one deriving the same base name as <base>-<its id>.pdf; a completed
\* export has written every such record.
C5_CollisionPolicy ==
    /\ \A k \in 1..Len(writes) :
         LET p == writes[k].pos
             base == BaseName(invoices[p].invoiceDate.val)
         IN  /\ Exportable(invoices[p])
             /\ writes[k].name =
                  IF FirstOfBase(p)
                  THEN base \o <<".", "p", "d", "f">>
                  ELSE base \o <<"-">> \o invoices[p].id.val \o <<".", "p", "d", "f">>
    /\ pc = "done" =>
         \A p \in 1..Len(invoices) :
             Exportable(invoices[p]) => \E k \in 1..Len(writes) : writes[k].pos = p

\* C5 witness: dates "1", " 1 2T3", "1/A" with ids A, B, A exported as 1.pdf, 1-B.pdf, 1-A.pdf.
C5_Witness ==
    /\ pc = "done"
    /\ Len(invoices) = 3
    /\ invoices[1] = [id |-> Some(<<"A">>), invoiceDate |-> Some(<<"1">>)]
    /\ invoices[2] = [id |-> Some(<<"B">>), invoiceDate |-> Some(<<" ", "1", " ", "2", "T", "3">>)]
    /\ WrittenNames = << <<"1", ".", "p", "d", "f">>,
                         <<"1", "-", "B", ".", "p", "d", "f">>,
                         <<"1", "-", "A", ".", "p", "d", "f">> >>

\* C6: within one export run no two exported records are written to the
\* same file name, so the number of PDF files equals the number of records
\* exported.
C6_CollisionFree ==
    /\ \A j \in 1..Len(writes), k \in 1..Len(writes) :
         j # k => writes[j].name # writes[k].name
    /\ Cardinality({writes[k].name : k \in 1..Len(writes)}) = Len(writes)

\* A document fetch failed.
FetchFailed == err \in {"FetchTransport", "FetchStatus"}

NumExportableBefore(i) == Cardinality({q \in 1..(i - 1) : Exportable(invoices[q])})

\* C7: if the document fetch fails for the record at position i, the export
\* aborts: the failed request is the last document request, no request and
\* no write exists for a later record, no file is written for record i, the
\* PDFs of the exportable records before i are all written with their own
\* documents, and the metadata file lists all records.
C7_FetchFailureAborts ==
    FetchFailed =>
        /\ pc = "failed"
        /\ docReqs # <<>>
        /\ docReqs[Len(docReqs)].pos = idx
        /\ \A k \in 1..Len(docReqs) : docReqs[k].pos <= idx
        /\ \A k \in 1..Len(writes) :
             /\ writes[k].pos < idx
             /\ writes[k].content = [doc |-> invoices[writes[k].pos].id.val]
        /\ Len(writes) = NumExportableBefore(idx)
        /\ pdf = None
        /\ metaFile = Some(invoices)

\* C7 witness: the fetch for the second of three exportable records fails
\* after the first was written.
C7_Witness ==
    /\ FetchFailed
    /\ Len(invoices) = 3
    /\ idx = 2
    /\ Len(writes) = 1
    /\ Exportable(invoices[3])

\* A record with an identifier but no date.
NoDate(r) == Truthy(r.id) /\ ~Truthy(r.invoiceDate)

WithoutNoDate(invs) == SelectSeq(invs, LAMBDA r : ~NoDate(r))

\* C8: a record with an identifier but no date (absent or empty) gets no
\* file, and the file names given to the other records are those the export
\* of the list without such records assigns.
C8_SkipNoDate ==
    /\ \A k \in 1..Len(writes) : ~NoDate(invoices[writes[k].pos])
    /\ LET expected == ExportNames(WithoutNoDate(invoices))
       IN  /\ Len(writes) <= Len(expected)
           /\ WrittenNames = SubSeq(expected, 1, Len(writes))
           /\ pc = "done" => WrittenNames = expected

\* C8 witness: a dateless record between two exported records of the same base name.
C8_Witness ==
    /\ pc = "done"
    /\ Len(invoices) = 3
    /\ Exportable(invoices[1])
    /\ NoDate(invoices[2])
    /\ Exportable(invoices[3])
    /\ BaseName(invoices[1].invoiceDate.val) = BaseName(invoices[3].invoiceDate.val)
    /\ Len(writes) = 2
    /\ Len(notices) = 1

\* C9: a record with no identifier (absent or empty), with or without a
\* date, is skipped silently: the step that handles it writes no file, sends
\* no request, prints no notice, raises no error, leaves the registry
\* unchanged and moves to the next record.
C9_SkipNoIdSilently ==
    [][(pc = "export" /\ idx <= Len(invoices) /\ ~Truthy(invoices[idx].id)) =>
          /\ idx' = idx + 1
          /\ pc' = "export"
          /\ UNCHANGED <<seen, writes, notices, docReqs, pdf, err, log, metaFile>>]_vars

\* C9 witness: a record with neither field and one with an empty identifier
\* were passed over, and the record after them was exported.
C9_Witness ==
    /\ pc = "done"
    /\ err = ""
    /\ Len(invoices) = 3
    /\ invoices[1] = [id |-> None, invoiceDate |-> None]
    /\ invoices[2].id = Some(<<>>)
    /\ Truthy(invoices[2].invoiceDate)
    /\ Exportable(invoices[3])
    /\ notices = <<>>
    /\ Len(writes) = 1
    /\ writes[1].pos = 3

\* The phase a side effect belongs to.
Rank(kind) ==
    CASE kind = "login" -> 1
      [] kind = "list" -> 2
      [] kind = "meta" -> 3
      [] OTHER -> 4

\* C10: the side effects of a run come in the order login, listing
\* requests, metadata file, document requests and PDF writes: no listing
\* request without a successful login, the metadata file written once, after
\* the listing returned and before any document request or PDF.
C10_PhaseOrder ==
    /\ \A j \in 1..Len(log), k \in 1..Len(log) :
         j < k => Rank(log[j]) <= Rank(log[k])
    /\ listReqs # <<>> => (TruthyStr(session_id) /\ Len(loginReqs) = 1 /\ log[1] = "login")
    /\ Cardinality({k \in 1..Len(log) : log[k] = "meta"}) <= 1
    /\ metaFile.has => (listed /\ \E k \in 1..Len(log) : log[k] = "meta")
    /\ (docReqs # <<>> \/ writes # <<>> \/ pc \in {"export", "write", "done"}) => metaFile.has
    /\ Len(listReqs) = Cardinality({k \in 1..Len(log) : log[k] = "list"})
    /\ Len(docReqs) = Cardinality({k \in 1..Len(log) : log[k] = "doc"})
    /\ Len(writes) = Cardinality({k \in 1..Len(log) : log[k] = "pdf"})

\* C10 witness: a finished run with two listing requests and a PDF written.
C10_Witness ==
    /\ pc = "done"
    /\ Len(listReqs) = 2
    /\ log = <<"login", "list", "list", "meta", "doc", "pdf">>

\* No request has been sent and no file written.
NothingDoneAfter(nLogin) ==
    /\ Len(loginReqs) = nLogin
    /\ listReqs = <<>>
    /\ docReqs = <<>>
    /\ served = <<>>
    /\ writes = <<>>
    /\ metaFile = None
    /\ ~listed

\* C11: if the login request fails, gets a non-success status, or is
\* answered without a (non-empty) session identifier, the run has no
\* session and stops: no listing request, no document request, no file;
\* login is attempted once and never again.
C11_LoginFailureIsFatal ==
    /\ Len(loginReqs) <= 1
    /\ (loginReqs # <<>> /\ ~TruthyStr(session_id)) =>
         /\ pc = "failed"
         /\ err \in {"LoginTransport", "LoginStatus", "LoginNoSession"}
         /\ NothingDoneAfter(1)
         /\ log = <<"login">>

\* C11 witness: the login was answered without a usable sessionId and the run failed.
C11_Witness ==
    /\ pc = "failed"
    /\ err = "LoginNoSession"
    /\ Len(loginReqs) = 1

\* C12: when the start date is not strictly earlier than the end date, or
\* one of the four credentials is missing or empty, the run fails before
\* the login request or any other request is sent and before any file is
\* written.
C12_PreconditionsBeforeNetwork ==
    (pc # "start" /\ (start_date >= end_date \/ \E n \in CredNames : env[n] = "")) =>
        /\ pc = "failed"
        /\ err \in {"ValueError", "MissingEnv"}
        /\ NothingDoneAfter(0)
        /\ log = <<>>

\* C12 witness: valid dates but the developer key alone is missing.
C12_Witness ==
    /\ pc = "failed"
    /\ err = "MissingEnv"
    /\ start_date < end_date
    /\ {n \in CredNames : env[n] = ""} = {"BILL_DEV_KEY"}

\* C13: the metadata file holds the whole collection the Lister returned,
\* in the same order and with every record unchanged, the records the
\* export later skips included; so the PDFs written never outnumber the
\* records in the metadata file.
C13_MetadataComplete ==
    metaFile.has =>
        /\ metaFile.val = Flatten(served)
        /\ metaFile.val = invoices
        /\ Len(writes) <= Len(metaFile.val)
        /\ \A k \in 1..Len(writes) : writes[k].pos \in 1..Len(metaFile.val)

\* C13 witness: a finished run whose metadata file lists a record without
\* identifier and a record without date, neither of which got a PDF.
C13_Witness ==
    /\ pc = "done"
    /\ metaFile.has
    /\ Len(metaFile.val) = 2
    /\ ~Truthy(metaFile.val[1].id)
    /\ Truthy(metaFile.val[2].id) /\ ~Truthy(metaFile.val[2].invoiceDate)
    /\ writes = <<>>

\* The document requests and PDF writes of the log, in order.
DocPdfLog == SelectSeq(log, LAMBDA kind : kind \in {"doc", "pdf"})

\* C14: documents are fetched and written one at a time in input order:
\* requests and writes each go through the positions in increasing order,
\* the k-th write is of the k-th requested record, requests and writes
\* alternate (request i, write i, request j, ...), and at most one fetched
\* document is waiting to be written.
C14_OneAtATime ==
    /\ \A j \in 1..Len(docReqs), k \in 1..Len(docReqs) :
         j < k => docReqs[j].pos < docReqs[k].pos
    /\ \A j \in 1..Len(writes), k \in 1..Len(writes) :
         j < k => writes[j].pos < writes[k].pos
    /\ Len(writes) <= Len(docReqs)
    /\ Len(docReqs) <= Len(writes) + 1
    /\ \A k \in 1..Len(writes) : writes[k].pos = docReqs[k].pos
    /\ Len(DocPdfLog) = Len(docReqs) + Len(writes)
    /\ \A k \in 1..Len(DocPdfLog) :
         DocPdfLog[k] = IF k % 2 = 1 THEN "doc" ELSE "pdf"
    /\ pc = "write" => pdf.has
    /\ pdf.has => (pc = "write" \/ err = "PdfWrite")
    /\ pdf.has => (Len(docReqs) = Len(writes) + 1 /\ docReqs[Len(docReqs)].pos = idx)

\* C14 witness: three records exported, the third fetched after the second was written.
C14_Witness ==
    /\ pc = "write"
    /\ idx = 3
    /\ Len(writes) = 2
    /\ log = <<"login", "list", "meta", "doc", "pdf", "doc", "pdf", "doc">>

\* The part of d before its first 'T' or space (all of d if it has none),
\* with '/' and ':' turned into '-'.
BeforeSeparator(d) ==
    LET seps == {k \in 1..Len(d) : d[k] = "T" \/ d[k] = " "}
        stop == IF seps = {} THEN Len(d) + 1
                ELSE CHOOSE k \in seps : \A m \in seps : k <= m
    IN  [k \in 1..(stop - 1) |-> IF d[k] = "/" \/ d[k] = ":" THEN "-" ELSE d[k]]

\* d without its leading and trailing spaces.
Trimmed(d) ==
    LET ink == {k \in 1..Len(d) : d[k] # " "}
    IN  IF ink = {} THEN <<>>
        ELSE SubSeq(d, CHOOSE k \in ink : \A m \in ink : k <= m,
                       CHOOSE k \in ink : \A m \in ink : k >= m)

\* Every PDF written is named after the base name base(date) of its record.
NamedAfter(base(_)) ==
    \A k \in 1..Len(writes) :
        LET r == invoices[writes[k].pos]
            b == base(r.invoiceDate.val)
        IN  writes[k].name \in {b \o <<".", "p", "d", "f">>,
                                b \o <<"-">> \o r.id.val \o <<".", "p", "d", "f">>}

\* C15 as stated: the base file name of a record is the part of its date
\* field before the first 'T' or space, with '/' and ':' replaced by '-',
\* for every date string, one that starts with a space included.
C15_BaseNameAsStated == NamedAfter(BeforeSeparator)

TrimmedBeforeSeparator(d) == BeforeSeparator(Trimmed(d))

\* C15 amended: the base file name of a record is the part of its date
\* field, leading and trailing whitespace removed first, before the first
\* 'T' or space, with '/' and ':' replaced by '-'.
C15_BaseNameAfterStrip == NamedAfter(TrimmedBeforeSeparator)

\* C15 witness: the date " /T" (space first, then a replaced character and a
\* separator) was exported as "-.pdf".
C15_Witness ==
    /\ Len(writes) = 1
    /\ invoices[1].invoiceDate = Some(<<" ", "/", "T">>)
    /\ writes[1].name = <<"-", ".", "p", "d", "f">>

\* One login request at most, exactly one once the exporter is constructed,
\* and every listing and document request carries the current session id.
OneSessionForAll ==
    /\ Len(loginReqs) <= 1
    /\ (pc \in {"list", "meta", "export", "write", "done"}
          \/ listReqs # <<>> \/ docReqs # <<>>) =>
         (Len(loginReqs) = 1 /\ TruthyStr(session_id))
    /\ \A k \in 1..Len(listReqs) : listReqs[k].sessionId = session_id.val
    /\ \A k \in 1..Len(docReqs) : docReqs[k].sessionId = session_id.val

\* C16: a run that gets to the exporter issues exactly one login request
\* (no run issues more), the session token that login returned never
\* changes afterwards, and every listing request and every document request
\* carries that token.
C16_OneSessionToken ==
    [][/\ OneSessionForAll'
       /\ TruthyStr(session_id) => session_id' = session_id
       /\ loginReqs # <<>> => loginReqs' = loginReqs]_vars

\* C16 witness: a finished run under session "s2" with two listing requests
\* and a document request.
C16_Witness ==
    /\ pc = "done"
    /\ session_id = SomeStr("s2")
    /\ Len(listReqs) = 2
    /\ Len(docReqs) = 1

\* C17: the pagination loop has no page bound.  It ends exactly when a
\* response carries no cursor or a request fails; after any number of
\* responses that all carried a non-empty cursor -- the same cursor again
\* and again included -- the function is still in its loop, has not
\* returned, holds every record served so far and will send that last cursor.
C17_LoopRunsWhileCursor ==
    /\ (served # <<>> /\ ~ListingFailed /\ TruthyStr(served[Len(served)].nextPage)) =>
         /\ pc = "list"
         /\ ~listed
         /\ results = Flatten(served)
         /\ next_page = served[Len(served)].nextPage
         /\ \A k \in 1..Len(served) : TruthyStr(served[k].nextPage)
    /\ (listReqs # <<>> /\ pc # "list") =>
         (ListingFailed \/ ~TruthyStr(served[Len(served)].nextPage))
    /\ (served # <<>> /\ ~TruthyStr(served[Len(served)].nextPage)) => listed
    /\ ListingFailed => pc = "failed"

\* C17 witness: as many pages as the model allows, every one with the cursor
\* "c1", and the loop has not ended; the records served are all appended.
C17_Witness ==
    /\ pc = "list"
    /\ Len(served) = MaxPages
    /\ \A k \in 1..Len(served) : served[k].nextPage = SomeStr("c1")
    /\ Len(results) = MaxRecords

\* The positions a document request was sent for.
RequestedPositions == {docReqs[k].pos : k \in 1..Len(docReqs)}

\* The loop has dealt with position p: it is past it, or it is at it with
\* the request sent (the document waiting, or the fetch or write failed).
ReachedByLoop(p) ==
    \/ p < idx
    \/ p = idx /\ (pc = "write" \/ err \in {"FetchTransport", "FetchStatus", "PdfWrite"})

\* C18: a document request is issued for a record if and only if it has a
\* non-empty identifier and a non-empty date and the loop got to it (no
\* earlier fetch or write failed); each such record gets one request, with
\* its own identifier; a completed export has sent as many requests as
\* there are records with both fields, and a skipped record causes none.
C18_RequestsMatchExportable ==
    /\ \A p \in 1..Len(invoices) :
         p \in RequestedPositions <=> (Exportable(invoices[p]) /\ ReachedByLoop(p))
    /\ RequestedPositions \subseteq 1..Len(invoices)
    /\ Cardinality(RequestedPositions) = Len(docReqs)
    /\ \A k \in 1..Len(docReqs) : docReqs[k].Id = invoices[docReqs[k].pos].id.val
    /\ pc = "done" =>
         Len(docReqs) = Cardinality({p \in 1..Len(invoices) : Exportable(invoices[p])})
    /\ pc = "failed" => idx <= Len(invoices)

\* C18 witness: a completed export of three records, two of them skipped
\* (one without identifier, one without date), with a single request.
C18_Witness ==
    /\ pc = "done"
    /\ Len(invoices) = 3
    /\ ~Truthy(invoices[1].id)
    /\ Exportable(invoices[2])
    /\ NoDate(invoices[3])
    /\ Len(docReqs) = 1
    /\ docReqs[1].Id = invoices[2].id.val

====
